---- MODULE Spec2Model ----
(***************************************************************************)
(* Order-collection manager of the production-order table.                 *)
(*                                                                         *)
(* Two table variants live in the repository:                              *)
(*   - the local-store table (js/modal.js on top of DataManager, which     *)
(*     persists to localStorage), specified by SpecLocal;                  *)
(*   - the remote table (js/organizer_table.js on top of the REST API),    *)
(*     specified by SpecRemote.                                            *)
(* SpecStore specifies the record store (DataManager) called directly.     *)
(***************************************************************************)
EXTENDS Integers, Sequences, FiniteSets, TLC

(***************************************************************************)
(* Bounds of the model.                                                    *)
(***************************************************************************)
MaxOrders == 4
MaxPrio == 2
MaxRequests == 2

(***************************************************************************)
(* Program constants.                                                      *)
(***************************************************************************)
DefaultPriority == 9999

VARIABLES
    \* ---- local-store table (modal.js + DataManager) ----
    store,          \* localStorage['productionOrders']: sequence of order records
    tbody,          \* rows of .production-table tbody, in display order
    isDeleteMode,   \* modal.js:471
    selectedRows,   \* modal.js:472, a Set of row elements (named by their order id)
    selectAll,      \* #select-all-checkbox: [checked, indeterminate]
    deleteBtnText,  \* label of .btn-delete: "delete" | "confirm" | "cancel"
    idClock,        \* the number of ids generateId has handed out (Date.now() part)
    lastOp,         \* the last handler that ran, with its inputs and outcome
    \* ---- remote table (organizer_table.js + REST API) ----
    server,         \* the collection the API serves, in stored order
    rtable,         \* the rows built by the last renderTable, in display order
    rSelectAll,     \* #selectAll: [checked, indeterminate]
    loading,        \* .production-table-container has class 'loading'
    refreshes,      \* GET /api/orders requests in flight, in the order issued
    lastCreatedPO,  \* organizer_table.js:2
    createReq,      \* the POST /api/orders in flight, if any
    delReq,         \* the batch-delete POST in flight, if any
    timers,         \* pending setTimeout callbacks of successful deletes, oldest first
    started,        \* number of 'loading' signals emitted (startSmoothRefresh)
    finished,       \* number of 'loaded' signals emitted (finishSmoothRefresh)
    requests,       \* number of create/delete requests sent so far
    lastOutcome,    \* how the GET that settled last came back
    applied,        \* the create/delete requests (by number) the API has carried out
    latestRefresh   \* the GET issued last: how it came back, and with which orders

lvars == <<store, tbody, isDeleteMode, selectedRows, selectAll, deleteBtnText, idClock, lastOp>>

rvars == <<server, rtable, rSelectAll, loading, refreshes, lastCreatedPO, createReq, delReq,
           timers, started, finished, requests, lastOutcome, applied, latestRefresh>>

vars == <<lvars, rvars>>

(***************************************************************************)
(* Sequence helpers.                                                       *)
(***************************************************************************)
InsertAt(s, i, x) == SubSeq(s, 1, i - 1) \o <<x>> \o SubSeq(s, i, Len(s))

(***************************************************************************)
(* DataManager (unnamed/part_001).                                         *)
(***************************************************************************)
Priorities == (1..MaxPrio) \cup {DefaultPriority}

\* generateId: 'order_' + Date.now() + '_' + random. The time part grows with
\* every order created, so the id is one no earlier order was given.
generateId(clock) == clock + 1

\* saveData that writes even when it reports a failure.
saveDataWritesAnyway(old, data, ok) == data

\* saveData: localStorage.setItem succeeds (ok) or throws (quota), in which
\* case the stored value is what it was.
saveData(old, data, ok) == IF ok THEN data ELSE old

\* Object spread { ...base, ...over }: the fields of both, those of `over`
\* winning.
Merge(base, over) ==
    [k \in DOMAIN base \cup DOMAIN over |->
        IF k \in DOMAIN over THEN over[k] ELSE base[k]]

\* addOrder, lines 56-74: { id: generateId(), ...orderData, createdAt,
\* updatedAt } is pushed and the collection saved. The id is spread over by
\* an `id` field of orderData. The time stamps are those of the clock tick
\* that made the id.
addOrder(orders, orderData, newId, ok) ==
    LET newOrder == Merge(Merge([id |-> newId], orderData),
                          [createdAt |-> newId, updatedAt |-> newId])
    IN  saveData(orders, Append(orders, newOrder), ok)

\* deleteOrder, lines 81-90: orders.filter(order => order.id !== orderId)
deleteOrder(orders, orderId, ok) ==
    LET Keep(o) == o.id # orderId
    IN  saveData(orders, SelectSeq(orders, Keep), ok)

\* updateOrder, lines 114-135: the first record with that id becomes
\* { ...record, ...updateData, updatedAt } and the collection is saved; false
\* when there is none (or the save failed).
updateOrder(orders, orderId, updateData, now, ok) ==
    LET found == {k \in 1..Len(orders) : orders[k].id = orderId}
    IN  IF found = {} THEN [orders |-> orders, result |-> FALSE]
        ELSE LET orderIndex == CHOOSE k \in found : \A j \in found : k <= j
                 updated == [orders EXCEPT ![orderIndex] =
                                Merge(Merge(@, updateData), [updatedAt |-> now])]
             IN  [orders |-> saveData(orders, updated, ok), result |-> ok]

\* importFromJSON, lines 194-207: the parsed value is saved as the collection
\* when it is an array; false when it is not, or when JSON.parse threw.
importFromJSON(orders, jsonData, ok) ==
    IF jsonData.kind = "array"
    THEN [orders |-> saveData(orders, jsonData.data, ok), result |-> ok]
    ELSE [orders |-> orders, result |-> FALSE]

\* deleteOrders with the `!` of the filter left out.
deleteOrdersKeepsListed(orders, orderIds, ok) ==
    LET Keep(o) == o.id \in orderIds
    IN  saveData(orders, SelectSeq(orders, Keep), ok)

\* deleteOrders: orders.filter(order => !orderIds.includes(order.id))
deleteOrders(orders, orderIds, ok) ==
    LET Keep(o) == o.id \notin orderIds
    IN  saveData(orders, SelectSeq(orders, Keep), ok)

\* getOrderById: orders.find(order => order.id === orderId) || null
HasOrder(orders, orderId) == \E k \in 1..Len(orders) : orders[k].id = orderId

\* The methods the DataManager class defines. modal.js:366 calls
\* window.dataManager.reorderOrders, which is not among them: the call
\* raises a TypeError and no record is written.
DataManagerMethods ==
    {"init", "getAllOrders", "saveData", "addOrder", "deleteOrder", "deleteOrders",
     "updateOrder", "getOrderById", "generateId", "clearAllData", "exportToJSON",
     "importFromJSON", "getStatistics"}

(***************************************************************************)
(* Priority sequencer of the local table (modal.js).                       *)
(***************************************************************************)
\* parseInt(rows[i].children[2].textContent) || 9999
CurrentPriority(row) == IF row.prio = 0 THEN DefaultPriority ELSE row.prio

\* FindInsertIndex with the comparison made strict.
RECURSIVE FindInsertIndexStrict(_, _, _)
FindInsertIndexStrict(rows, targetPriority, from) ==
    IF from > Len(rows) THEN Len(rows) + 1
    ELSE IF targetPriority < (IF rows[from].prio = 0 THEN 9999 ELSE rows[from].prio)
         THEN from
    ELSE FindInsertIndexStrict(rows, targetPriority, from + 1)

\* FindInsertIndex that puts the incoming row first whenever some row has a
\* priority >= the requested one.
FindInsertIndexFirst(rows, targetPriority, from) ==
    IF \E i \in from..Len(rows) : targetPriority <= rows[i].prio
    THEN from ELSE Len(rows) + 1

\* insertOrderAtPriority, lines 231-239: the first index i (from `from` on) with
\* targetPriority <= currentPriority, else rows.length. Indices are 1-based.
RECURSIVE FindInsertIndex(_, _, _)
FindInsertIndex(rows, targetPriority, from) ==
    IF from > Len(rows) THEN Len(rows) + 1
    ELSE IF targetPriority <= CurrentPriority(rows[from]) THEN from
    ELSE FindInsertIndex(rows, targetPriority, from + 1)

\* reorderPriorityColumn, lines 332-337: .col-priority of row index is index + 1
reorderPriorityColumn(rows) ==
    [i \in 1..Len(rows) |-> [rows[i] EXCEPT !.prio = i]]

\* renumberTable, lines 617-625: td:nth-child(2) of row index is index + 1. The
\* second cell of a row built by this file is the radio cell; the priority
\* cell is the third (children[2]).
renumberTable(rows) ==
    [i \in 1..Len(rows) |-> [rows[i] EXCEPT !.cell2 = i]]

\* syncPriorityToStorage, lines 346-368: collects the stored records of the
\* rendered rows, with priority index + 1 set on the copies getOrderById
\* parsed, and hands them to window.dataManager.reorderOrders when there is
\* at least one. DataManager has no such method, so that call raises a
\* TypeError and the stored collection is what it was.
\* Returns the stored collection afterwards and whether the call threw.
syncPriorityToStorage(orders, rows) ==
    LET reorderedData == {i \in 1..Len(rows) : HasOrder(orders, rows[i].oid)}
    IN  [orders |-> orders,
         threw  |-> reorderedData # {} /\ "reorderOrders" \notin DataManagerMethods]

\* The row insertOrderAtPriority builds (lines 242-295).
NewRow(orderId, targetPriority) ==
    [oid |-> orderId, prio |-> targetPriority, cell2 |-> 0, checked |-> FALSE]

(***************************************************************************)
(* Selection tracker of the local table (modal.js).                        *)
(***************************************************************************)
\* clearAllSelections with selectedRows.clear() left out.
SelectionKept(sel) == sel

\* clearAllSelections, line 514: selectedRows.clear()
clearAllSelections(sel) == {}

\* clearAllSelections with `checkbox.checked = false` left out.
ChecksKept(rows) == rows

\* clearAllSelections on the rows: every .row-checkbox unchecked
UncheckAll(rows) == [i \in 1..Len(rows) |-> [rows[i] EXCEPT !.checked = FALSE]]

\* updateSelectAllCheckbox, lines 540-554
updateSelectAllCheckbox(sa, rows) ==
    LET nChecked == Cardinality({i \in 1..Len(rows) : rows[i].checked})
    IN  IF nChecked = 0 THEN [checked |-> FALSE, indeterminate |-> FALSE]
        ELSE IF nChecked = Len(rows) THEN [checked |-> TRUE, indeterminate |-> FALSE]
        ELSE [sa EXCEPT !.indeterminate = TRUE]

\* updateDeleteButtonState, lines 627-639
updateDeleteButtonState(text, mode, sel) ==
    IF ~mode THEN text
    ELSE IF sel = {} THEN "cancel" ELSE "confirm"

\* The priority column as displayed, top to bottom.
PriorityColumn(rows) == [i \in 1..Len(rows) |-> rows[i].prio]

\* A value a DataManager method returned, with its JavaScript type.
Returned(type, val) == [type |-> type, val |-> val]

\* The record of the last handler or call:
\*   ok     - it went through (for a DataManager call: what it returned);
\*   dense  - the priority column read 1..N when the handler started;
\*   stored - FALSE when localStorage refused the write it attempted;
\*   ids    - the ids handed to deleteOrders;
\*   ret    - what the DataManager method returned.
NoOp ==
    [op |-> "none", target |-> 0, ok |-> TRUE, index |-> 0, dense |-> TRUE,
     stored |-> TRUE, ids |-> {}, ret |-> Returned("undefined", FALSE)]

IsDense(rows) == \A i \in 1..Len(rows) : rows[i].prio = i

InitLocal ==
    /\ store = <<>>
    /\ tbody = <<>>
    /\ isDeleteMode = FALSE
    /\ selectedRows = {}
    /\ selectAll = [checked |-> FALSE, indeterminate |-> FALSE]
    /\ deleteBtnText = "delete"
    /\ idClock = 0
    /\ lastOp = NoOp

\* handleFormSubmit -> insertOrderAtPriority(orderData), lines 225-305, with
\* reorderPriorityColumn and syncPriorityToStorage as its tail.
InsertOrderAtPriority(targetPriority, ok) ==
    /\ idClock < MaxOrders
    /\ LET insertIndex == FindInsertIndex(tbody, targetPriority, 1)
           newId       == generateId(idClock)
           saved       == addOrder(store, [priority |-> targetPriority], newId, ok)
       IN  IF ~ok
           THEN \* addOrder returned false: alert and return
                /\ lastOp' = [NoOp EXCEPT !.op = "insert", !.target = targetPriority,
                                          !.ok = FALSE, !.stored = FALSE]
                /\ store' = saved
                /\ UNCHANGED <<tbody, idClock>>
           ELSE LET placed   == InsertAt(tbody, insertIndex, NewRow(newId, targetPriority))
                    shown    == reorderPriorityColumn(placed)
                    synced   == syncPriorityToStorage(saved, shown)
                IN  /\ tbody' = shown
                    /\ store' = synced.orders
                    /\ idClock' = newId
                    /\ lastOp' = [NoOp EXCEPT !.op = "insert", !.target = targetPriority,
                                              !.index = insertIndex,
                                              !.dense = IsDense(tbody)]
    /\ UNCHANGED <<isDeleteMode, selectedRows, selectAll, deleteBtnText>>

\* confirmDelete with the answer to the prompt ignored.
ProceedsAnyway(confirmed) == TRUE

\* confirmDelete, line 583: if (confirm(confirmMessage)) { ... }
Proceeds(confirmed) == confirmed

\* deleteBtn click handler, lines 649-663, with toggleDeleteMode (474-511),
\* clearAllSelections (513-522) and confirmDelete (575-615). `confirmed` is the
\* user's answer to window.confirm, `ok` whether localStorage accepts the save.
DeleteBtnClick(confirmed, ok) ==
    IF ~isDeleteMode
    THEN \* enter delete mode: toggleDeleteMode(); updateDeleteButtonState()
         /\ isDeleteMode' = TRUE
         /\ deleteBtnText' = updateDeleteButtonState("confirm", TRUE, selectedRows)
         /\ lastOp' = [NoOp EXCEPT !.op = "enterDelete"]
         /\ UNCHANGED <<store, tbody, selectedRows, selectAll, idClock>>
    ELSE IF selectedRows = {}
    THEN \* cancel: exitDeleteMode -> toggleDeleteMode -> clearAllSelections
         /\ isDeleteMode' = FALSE
         /\ deleteBtnText' = "delete"
         /\ selectedRows' = clearAllSelections(selectedRows)
         /\ tbody' = UncheckAll(tbody)
         /\ selectAll' = [selectAll EXCEPT !.checked = FALSE]
         /\ lastOp' = [NoOp EXCEPT !.op = "cancelDelete"]
         /\ UNCHANGED <<store, idClock>>
    ELSE IF ~Proceeds(confirmed)
    THEN \* confirmDelete, the user declined
         /\ lastOp' = [NoOp EXCEPT !.op = "declineDelete"]
         /\ UNCHANGED <<store, tbody, isDeleteMode, selectedRows, selectAll, deleteBtnText,
                        idClock>>
    ELSE LET orderIdsToDelete == {r \in selectedRows : r # 0}
             \* what the user did: confirmed the deletion, or declined it
             did == IF confirmed THEN "delete" ELSE "declineDelete"
         IN  IF orderIdsToDelete # {} /\ ~ok
             THEN \* deleteOrders returned false: alert and return
                  /\ lastOp' = [NoOp EXCEPT !.op = did, !.ok = FALSE, !.stored = FALSE]
                  /\ store' = deleteOrders(store, orderIdsToDelete, ok)
                  /\ UNCHANGED <<tbody, isDeleteMode, selectedRows, selectAll,
                                 deleteBtnText, idClock>>
             ELSE LET Kept(row) == row.oid \notin selectedRows
                      left == renumberTable(SelectSeq(tbody, Kept))
                  IN  /\ store' = IF orderIdsToDelete # {}
                                  THEN deleteOrders(store, orderIdsToDelete, ok)
                                  ELSE store
                      \* toggleDeleteMode leaves delete mode and clears the selection
                      /\ tbody' = UncheckAll(left)
                      /\ isDeleteMode' = FALSE
                      /\ deleteBtnText' = "delete"
                      /\ selectedRows' = clearAllSelections(selectedRows)
                      /\ selectAll' = [selectAll EXCEPT !.checked = FALSE]
                      /\ lastOp' = [NoOp EXCEPT !.op = did]
                      /\ UNCHANGED idClock

\* handleRowSelection, lines 524-538, reached from the row click handler
\* (684-704, delete mode only) or the checkbox change handler (677-681).
RowClick(i) ==
    /\ isDeleteMode
    /\ i \in 1..Len(tbody)
    /\ LET nowChecked == ~tbody[i].checked
           rows == [tbody EXCEPT ![i].checked = nowChecked]
           sel  == IF nowChecked THEN selectedRows \cup {tbody[i].oid}
                   ELSE selectedRows \ {tbody[i].oid}
       IN  /\ tbody' = rows
           /\ selectedRows' = sel
           /\ selectAll' = updateSelectAllCheckbox(selectAll, rows)
           /\ deleteBtnText' = updateDeleteButtonState(deleteBtnText, isDeleteMode, sel)
    /\ lastOp' = [NoOp EXCEPT !.op = "rowClick"]
    /\ UNCHANGED <<store, isDeleteMode, idClock>>

\* handleSelectAll, lines 556-573: the user clicked #select-all-checkbox (shown
\* in delete mode only); the click flips `checked` and clears `indeterminate`.
SelectAllChange ==
    /\ isDeleteMode
    /\ LET nowChecked == ~selectAll.checked
           sel == IF nowChecked THEN {tbody[i].oid : i \in 1..Len(tbody)} ELSE {}
       IN  /\ selectAll' = [checked |-> nowChecked, indeterminate |-> FALSE]
           /\ tbody' = [i \in 1..Len(tbody) |-> [tbody[i] EXCEPT !.checked = nowChecked]]
           /\ selectedRows' = IF nowChecked THEN selectedRows \cup sel
                              ELSE selectedRows \ {tbody[i].oid : i \in 1..Len(tbody)}
           /\ deleteBtnText' =
                 updateDeleteButtonState(deleteBtnText, isDeleteMode, selectedRows')
    /\ lastOp' = [NoOp EXCEPT !.op = "selectAll"]
    /\ UNCHANGED <<store, isDeleteMode, idClock>>

\* keydown Escape, lines 708-712: exitDeleteMode
Escape ==
    /\ isDeleteMode
    /\ isDeleteMode' = FALSE
    /\ deleteBtnText' = "delete"
    /\ selectedRows' = clearAllSelections(selectedRows)
    /\ tbody' = UncheckAll(tbody)
    /\ selectAll' = [selectAll EXCEPT !.checked = FALSE]
    /\ lastOp' = [NoOp EXCEPT !.op = "escape"]
    /\ UNCHANGED <<store, idClock>>

\* orders.sort((a, b) => (a.priority || 9999) - (b.priority || 9999)), line 730.
\* Array.prototype.sort is stable: a record goes after the records that are
\* not greater than it.
SortKey(order) == IF order.priority = 0 THEN DefaultPriority ELSE order.priority

RECURSIVE SortByPriority(_)
SortByPriority(orders) ==
    IF orders = <<>> THEN <<>>
    ELSE LET n      == Len(orders)
             sorted == SortByPriority(SubSeq(orders, 1, n - 1))
             x      == orders[n]
             pos    == Cardinality({k \in 1..(n - 1) : SortKey(sorted[k]) <= SortKey(x)})
         IN  InsertAt(sorted, pos + 1, x)

\* The page is loaded again: loadOrdersFromStorage, lines 717-741, with
\* addOrderToTable(order, order.id) per record (144-206) and
\* reorderPriorityColumn as its tail. The script's state starts afresh.
LoadOrdersFromStorage ==
    /\ LET orders == SortByPriority(store)
           built  == [i \in 1..Len(orders) |->
                        [oid |-> orders[i].id,
                         prio |-> IF orders[i].priority # 0 THEN orders[i].priority ELSE i,
                         cell2 |-> 0, checked |-> FALSE]]
           shown  == reorderPriorityColumn(built)
           synced == syncPriorityToStorage(store, shown)
       IN  /\ tbody' = shown
           /\ store' = synced.orders
           /\ lastOp' = [NoOp EXCEPT !.op = "load"]
    /\ isDeleteMode' = FALSE
    /\ selectedRows' = {}
    /\ selectAll' = [checked |-> FALSE, indeterminate |-> FALSE]
    /\ deleteBtnText' = "delete"
    /\ UNCHANGED idClock

(***************************************************************************)
(* Remote table (js/organizer_table.js).                                   *)
(***************************************************************************)
\* Business keys (Production_order) of the modelled orders.
Keys == {"A", "B"}

NoPO == "none"

\* The collection GET /api/orders serves when the page is opened: nothing, one
\* order, or one order whose Production_order is the empty string.
InitialCollections ==
    {<<>>, <<[po |-> "A", prio |-> 2]>>, <<[po |-> "", prio |-> 1]>>}

\* What a GET /api/orders can come back as (lines 39-55): a body with status
\* 'success' and the list of orders, a 'success' body whose data is not a
\* list, a body with another status, a non-OK HTTP status, a rejected fetch.
RefreshOutcomes == {"success", "badData", "notSuccess", "httpError", "netError"}

\* What a POST can come back as (lines 257-258, 358-359): success, a non-OK
\* response or success flag false, a rejected fetch.
MutationOutcomes == {"success", "rejected", "netError"}

\* The API stores a created record after the ones it has.
ServerCreate(collection, po, prio) == Append(collection, [po |-> po, prio |-> prio])

\* The API removes every record whose Production_order is among the keys.
ServerDelete(collection, keys) ==
    LET Kept(o) == o.po \notin keys
    IN  SelectSeq(collection, Kept)

\* .finally(() => finishSmoothRefresh()) with the callback run only when the
\* chain fulfilled.
FinallyRunsOnSuccessOnly(outcome) == outcome = "success"

\* .finally(() => finishSmoothRefresh()), lines 56-58: the callback runs however
\* the chain settled.
FinallyRuns(outcome) == outcome \in RefreshOutcomes

\* startSmoothRefresh + fetch(...), lines 38-39: one more request in flight.
\* cause, keys and req record which handler issued it, the business keys its
\* request had sent and the number of that request (0 for the page load);
\* seen is the set of requests the API had carried out when it read the
\* collection for this GET.
IssueRefresh(refs, cause, keys, req) ==
    Append(refs, [cause |-> cause, keys |-> keys, req |-> req, answered |-> FALSE,
                  snap |-> <<>>, seen |-> {}])

\* renderTable, lines 66-105: tbody is emptied and one row per fetched order
\* is appended, in the order fetched. Lines 111-121: the first row whose
\* data-production-order is lastCreatedPO gets class row-added.
BuildRows(orders, highlightPO) ==
    [i \in 1..Len(orders) |->
        [po |-> orders[i].po, prio |-> orders[i].prio, checked |-> FALSE,
         attached |-> TRUE,
         added |-> /\ highlightPO # NoPO
                   /\ orders[i].po = highlightPO
                   /\ \A k \in 1..(i - 1) : orders[k].po # highlightPO]]

renderTable(orders, highlightPO) == BuildRows(orders, highlightPO)

\* tableBody.innerHTML = '' (line 66), and r.remove() (line 265): the rows leave
\* the document; the listeners of the last initTableCheckboxes still hold them.
Detach(rows, which) ==
    [i \in 1..Len(rows) |->
        IF i \in which THEN [rows[i] EXCEPT !.attached = FALSE] ELSE rows[i]]

\* The rows in the document, in display order.
Attached(rows) == {i \in 1..Len(rows) : rows[i].attached}

RenderedKeys(rows) == {rows[i].po : i \in Attached(rows)}

\* document.querySelectorAll('.row-checkbox:checked'), lines 192, 207, 231
CheckedRows(rows) == {i \in Attached(rows) : rows[i].checked}

\* The text of the fourth cell of a row (line 92): the Production_order the
\* data-production-order attribute of its checkbox was made from (line 89).
ProductionOrderCell(row) == row.po

\* getSelectedProductionOrders reading every row of the table, checked or not.
getProductionOrdersOfAllRows(rows) ==
    {rows[i].po : i \in {k \in Attached(rows) : rows[k].po # ""}}

\* getSelectedProductionOrders, lines 205-222: for each checked row the
\* data-production-order attribute or, when that is empty, the text of the
\* fourth cell; the empty ones are left out.
getSelectedProductionOrders(rows) ==
    LET Key(row) == IF row.po # "" THEN row.po ELSE ProductionOrderCell(row)
    IN  {Key(rows[i]) : i \in {k \in CheckedRows(rows) : Key(rows[k]) # ""}}

\* getSelectedRows, lines 190-202
getSelectedRows(rows) == CheckedRows(rows)

\* updateSelectAllState, lines 166-174, over the rowCheckboxes NodeList taken
\* by the last initTableCheckboxes (rows removed since are still in it).
updateSelectAllState(rows) ==
    LET allChecked  == \A i \in 1..Len(rows) : rows[i].checked
        someChecked == \E i \in 1..Len(rows) : rows[i].checked
    IN  [checked |-> allChecked, indeterminate |-> someChecked /\ ~allChecked]

\* lines 111-121 with `lastCreatedPO = null` left out.
MarkerKept(marker) == marker

\* renderTable, lines 111-121: after the highlight lastCreatedPO is null.
MarkerAfterRender(marker) == NoPO

\* `button.disabled = true` left out.
ButtonLeftEnabled == FALSE

\* line 321: if (submitBtn) submitBtn.disabled = true
submitBtnDisabled == TRUE

\* line 249: deleteBtn.disabled = true
deleteBtnDisabled == TRUE

\* The create POST counted as failed only when fetch itself rejected.
CreateFailedOnThrowOnly(outcome) == outcome = "netError"

\* lines 358-362 and the catch of 369: the create failed when fetch rejected,
\* when the response is not OK or when the body says success === false.
CreateFailed(outcome) == outcome \in {"rejected", "netError"}

\* The submit button and the create POST behind it:
\*   disabled - submitBtn.disabled; inflight - POSTs awaiting their response;
\*   n, po, prio, finished, intended - the request in flight (its number, and
\*   Production_order, Priority, Pieces_finished, Pieces_intended of its body);
\*   last - how the last POST came back.
IdleCreate ==
    [state |-> "idle", disabled |-> FALSE, inflight |-> 0, n |-> 0, po |-> NoPO,
     prio |-> 0, finished |-> 0, intended |-> 0, last |-> "none"]

\* The delete button and the batch-delete POST behind it: keys is the
\* production_orders list of the request in flight, confirmed the answer the
\* user gave to window.confirm before it was sent.
IdleDelete ==
    [state |-> "idle", disabled |-> FALSE, inflight |-> 0, n |-> 0, keys |-> {},
     confirmed |-> FALSE]

\* The GET issued last: in flight, or settled with an outcome and, when it
\* succeeded, the orders it returned. NoRefresh before the first one.
NoRefresh == [outcome |-> "none", snap |-> <<>>]

LatestIssued == [outcome |-> "pending", snap |-> <<>>]

\* The settling of the i-th GET in flight: it is the GET issued last when it
\* is the youngest in flight and the one issued last has not settled yet.
LatestSettled(latest, refs, i, outcome) ==
    IF i = Len(refs) /\ latest.outcome = "pending"
    THEN [outcome |-> outcome,
          snap |-> IF outcome = "success" THEN refs[i].snap ELSE <<>>]
    ELSE latest

\* The state before the page is opened, used by the local-table specification.
RemoteAtRest ==
    /\ server = <<>>
    /\ rtable = <<>>
    /\ rSelectAll = [checked |-> FALSE, indeterminate |-> FALSE]
    /\ loading = FALSE
    /\ refreshes = <<>>
    /\ lastCreatedPO = NoPO
    /\ createReq = IdleCreate
    /\ delReq = IdleDelete
    /\ timers = <<>>
    /\ started = 0
    /\ finished = 0
    /\ requests = 0
    /\ lastOutcome = "none"
    /\ applied = {}
    /\ latestRefresh = NoRefresh

\* DOMContentLoaded, lines 380-384: fetchAndDisplayOrders() is called once.
InitRemote ==
    /\ server \in InitialCollections
    /\ rtable = <<>>
    /\ rSelectAll = [checked |-> FALSE, indeterminate |-> FALSE]
    /\ loading = TRUE
    /\ refreshes = IssueRefresh(<<>>, "load", {}, 0)
    /\ lastCreatedPO = NoPO
    /\ createReq = IdleCreate
    /\ delReq = IdleDelete
    /\ timers = <<>>
    /\ started = 1
    /\ finished = 0
    /\ requests = 0
    /\ lastOutcome = "none"
    /\ applied = {}
    /\ latestRefresh = LatestIssued

LocalAtRest ==
    /\ store = <<>>
    /\ tbody = <<>>
    /\ isDeleteMode = FALSE
    /\ selectedRows = {}
    /\ selectAll = [checked |-> FALSE, indeterminate |-> FALSE]
    /\ deleteBtnText = "delete"
    /\ idClock = 0
    /\ lastOp = NoOp

RemoveAt(s, i) == SubSeq(s, 1, i - 1) \o SubSeq(s, i + 1, Len(s))

\* The API reads the collection for the i-th GET in flight.
ServerAnswersRefresh(i) ==
    /\ i \in 1..Len(refreshes)
    /\ ~refreshes[i].answered
    /\ refreshes' = [refreshes EXCEPT ![i].answered = TRUE, ![i].snap = server,
                                      ![i].seen = applied]
    /\ UNCHANGED <<server, rtable, rSelectAll, loading, lastCreatedPO, createReq, delReq,
                   timers, started, finished, requests, lastOutcome, applied>>
    /\ UNCHANGED latestRefresh

\* fetchAndDisplayOrders with a catch that fetches again: a GET that failed is
\* re-issued for the handler that had issued it.
RefreshSettlesRetrying(i, outcome) ==
    /\ i \in 1..Len(refreshes)
    /\ outcome # "netError" => refreshes[i].answered
    /\ started <= MaxRequests + 1
    /\ IF outcome \in {"success", "badData"}
       THEN /\ refreshes' = RemoveAt(refreshes, i)
            /\ loading' = FALSE
            /\ UNCHANGED started
       ELSE /\ refreshes' = IssueRefresh(RemoveAt(refreshes, i), refreshes[i].cause,
                                         refreshes[i].keys, refreshes[i].req)
            /\ loading' = TRUE
            /\ started' = started + 1
    /\ CASE outcome = "success" ->
              /\ rtable' = renderTable(refreshes[i].snap, lastCreatedPO)
              /\ lastCreatedPO' = MarkerAfterRender(lastCreatedPO)
         [] outcome = "badData" ->
              /\ rtable' = Detach(rtable, 1..Len(rtable))
              /\ UNCHANGED lastCreatedPO
         [] OTHER -> UNCHANGED <<rtable, lastCreatedPO>>
    /\ timers' = IF outcome \in {"success", "badData"}
                 THEN [k \in 1..Len(timers) |-> [timers[k] EXCEPT !.rows = {}]]
                 ELSE timers
    /\ finished' = finished + 1
    /\ lastOutcome' = outcome
    /\ UNCHANGED <<server, rSelectAll, createReq, delReq, requests, applied>>
    /\ latestRefresh' = IF outcome \in {"success", "badData"}
                        THEN LatestSettled(latestRefresh, refreshes, i, outcome)
                        ELSE LatestIssued

\* The promise chain of fetchAndDisplayOrders, lines 40-58, for the i-th GET in
\* flight: then / catch, and finishSmoothRefresh in finally.
RefreshSettles(i, outcome) ==
    /\ i \in 1..Len(refreshes)
    /\ outcome # "netError" => refreshes[i].answered
    /\ refreshes' = RemoveAt(refreshes, i)
    /\ CASE outcome = "success" ->
              /\ rtable' = renderTable(refreshes[i].snap, lastCreatedPO)
              /\ lastCreatedPO' = MarkerAfterRender(lastCreatedPO)
         [] outcome = "badData" ->
              \* renderTable empties tbody, then orders.forEach throws
              /\ rtable' = Detach(rtable, 1..Len(rtable))
              /\ UNCHANGED lastCreatedPO
         [] OTHER -> UNCHANGED <<rtable, lastCreatedPO>>
    \* a new render detaches the rows a pending timer holds: removing them
    \* later changes nothing
    /\ timers' = IF outcome \in {"success", "badData"}
                 THEN [k \in 1..Len(timers) |-> [timers[k] EXCEPT !.rows = {}]]
                 ELSE timers
    \* finishSmoothRefresh: container.classList.remove('loading')
    /\ loading' = IF FinallyRuns(outcome) THEN FALSE ELSE loading
    /\ finished' = IF FinallyRuns(outcome) THEN finished + 1 ELSE finished
    /\ lastOutcome' = outcome
    /\ UNCHANGED <<server, rSelectAll, createReq, delReq, started, requests, applied>>
    /\ latestRefresh' = LatestSettled(latestRefresh, refreshes, i, outcome)

\* Row click or checkbox change, lines 141-163.
ToggleRow(i) ==
    /\ i \in Attached(rtable)
    /\ LET rows == [rtable EXCEPT ![i].checked = ~rtable[i].checked]
       IN  /\ rtable' = rows
           /\ rSelectAll' = updateSelectAllState(rows)
    /\ UNCHANGED <<server, loading, refreshes, lastCreatedPO, createReq, delReq, timers,
                   started, finished, requests, lastOutcome, applied>>
    /\ UNCHANGED latestRefresh

\* #selectAll change, lines 131-138: the click flips `checked` and clears
\* `indeterminate`; the listeners set every row checkbox to it.
ToggleSelectAll ==
    /\ rSelectAll' = [checked |-> ~rSelectAll.checked, indeterminate |-> FALSE]
    /\ rtable' = [i \in 1..Len(rtable) |->
                    [rtable[i] EXCEPT !.checked = ~rSelectAll.checked]]
    /\ UNCHANGED <<server, loading, refreshes, lastCreatedPO, createReq, delReq, timers,
                   started, finished, requests, lastOutcome, applied>>
    /\ UNCHANGED latestRefresh

\* Delete button click, lines 229-256, up to the await of the POST. A
\* disabled button receives no click.
DeleteClick(confirmed) ==
    /\ ~delReq.disabled
    /\ requests < MaxRequests
    /\ LET selectedPOs == getSelectedProductionOrders(rtable)
       IN  IF CheckedRows(rtable) = {} \/ selectedPOs = {} \/ ~confirmed
           THEN UNCHANGED <<delReq, requests>>
           ELSE /\ delReq' = [state |-> "pending", disabled |-> deleteBtnDisabled,
                              inflight |-> delReq.inflight + 1, n |-> requests + 1,
                              keys |-> selectedPOs, confirmed |-> confirmed]
                /\ requests' = requests + 1
    /\ UNCHANGED <<server, rtable, rSelectAll, loading, refreshes, lastCreatedPO, createReq,
                   timers, started, finished, lastOutcome, applied>>
    /\ UNCHANGED latestRefresh

\* The batch-delete POST comes back, lines 257-280. On success the API has
\* removed the records with the keys sent.
DeleteSettles(outcome) ==
    /\ delReq.state = "pending"
    /\ delReq' = IdleDelete           \* finally: deleteBtn.disabled = false
    /\ IF outcome = "success"
       THEN     /\ server' = ServerDelete(server, delReq.keys)
                /\ applied' = applied \cup {delReq.n}
                /\ timers' = Append(timers, [rows |-> getSelectedRows(rtable),
                                             keys |-> delReq.keys, n |-> delReq.n])
                /\ UNCHANGED <<refreshes, loading, started>>
       ELSE /\ refreshes' = IssueRefresh(refreshes, "deleteFailed", delReq.keys, delReq.n)
            /\ loading' = TRUE
            /\ started' = started + 1
            /\ UNCHANGED <<server, timers, applied>>
    /\ UNCHANGED <<rtable, rSelectAll, lastCreatedPO, createReq, finished, requests,
                   lastOutcome>>
    /\ latestRefresh' = IF outcome = "success" THEN latestRefresh ELSE LatestIssued

\* The setTimeout callback of a successful delete, lines 264-267.
TimerFires ==
    /\ timers # <<>>
    /\ rtable' = Detach(rtable, Head(timers).rows)
    /\ timers' = Tail(timers)
    /\ refreshes' = IssueRefresh(refreshes, "deleteDone", Head(timers).keys, Head(timers).n)
    /\ loading' = TRUE
    /\ started' = started + 1
    /\ UNCHANGED <<server, rSelectAll, lastCreatedPO, createReq, delReq, finished, requests,
                   lastOutcome, applied>>
    /\ latestRefresh' = LatestIssued

\* The submit handler with the POST not awaited: the marker is set and the
\* refresh issued as soon as the request is sent.
SubmitCreateNoAwait(productionOrder, partType, priority, plannedQuantity, currentQuantity) ==
    /\ ~createReq.disabled
    /\ requests < MaxRequests
    /\ IF productionOrder = "" \/ partType = "" \/ plannedQuantity <= 0
       THEN UNCHANGED <<createReq, requests, lastCreatedPO, refreshes, loading, started>>
       ELSE /\ createReq' = [state |-> "pending", disabled |-> TRUE,
                             inflight |-> createReq.inflight + 1, n |-> requests + 1,
                             po |-> productionOrder, prio |-> priority,
                             finished |-> currentQuantity,
                             intended |-> plannedQuantity,
                             last |-> createReq.last]
            /\ requests' = requests + 1
            /\ lastCreatedPO' = productionOrder
            /\ refreshes' = IssueRefresh(refreshes, "created", {productionOrder},
                                         requests + 1)
            /\ loading' = TRUE
            /\ started' = started + 1
    /\ UNCHANGED <<server, rtable, rSelectAll, delReq, timers, finished, lastOutcome,
                   applied>>
    /\ latestRefresh' = IF productionOrder = "" \/ partType = "" \/ plannedQuantity <= 0
                        THEN latestRefresh ELSE LatestIssued

\* New-order form submit, lines 317-356, up to the await of the POST. A
\* disabled submit button submits nothing. On a validation failure the button
\* is enabled again (line 335) and nothing is sent.
SubmitCreate(productionOrder, partType, priority, plannedQuantity, currentQuantity) ==
    /\ ~createReq.disabled
    /\ requests < MaxRequests
    \* line 333: !productionOrder || !partType || plannedQuantity <= 0
    /\ IF productionOrder = "" \/ partType = "" \/ plannedQuantity <= 0
       THEN UNCHANGED <<createReq, requests>>
       ELSE /\ createReq' = [state |-> "pending", disabled |-> submitBtnDisabled,
                             inflight |-> createReq.inflight + 1, n |-> requests + 1,
                             po |-> productionOrder, prio |-> priority,
                             finished |-> currentQuantity,
                             intended |-> plannedQuantity,
                             last |-> createReq.last]
            /\ requests' = requests + 1
    /\ UNCHANGED <<server, rtable, rSelectAll, loading, refreshes, lastCreatedPO, delReq,
                   timers, started, finished, lastOutcome, applied>>
    /\ UNCHANGED latestRefresh

\* The create POST comes back, lines 358-374. On success the API has stored
\* the record after the ones it had.
CreateSettles(outcome) ==
    /\ createReq.state = "pending"
    \* finally: submitBtn.disabled = false
    /\ createReq' = [IdleCreate EXCEPT !.last = outcome]
    /\ server' = IF outcome = "success"
                 THEN ServerCreate(server, createReq.po, createReq.prio)
                 ELSE server
    /\ applied' = IF outcome = "success" THEN applied \cup {createReq.n} ELSE applied
    /\ IF ~CreateFailed(outcome)
       THEN /\ lastCreatedPO' = createReq.po
            /\ refreshes' = IssueRefresh(refreshes, "created", {createReq.po}, createReq.n)
            /\ loading' = TRUE
            /\ started' = started + 1
       ELSE UNCHANGED <<lastCreatedPO, refreshes, loading, started>>
    /\ UNCHANGED <<rtable, rSelectAll, delReq, timers, finished, requests, lastOutcome>>
    /\ latestRefresh' = IF ~CreateFailed(outcome) THEN LatestIssued ELSE latestRefresh

\* What the user types into the new-order form: a part type or nothing, a
\* planned quantity and a current quantity.
PartTypes == {"", "shaft"}

PlannedQuantities == 0..1

CurrentQuantities == {0, 2}

NextRemote ==
    \/ \E i \in 1..(MaxRequests + 1) : ServerAnswersRefresh(i) /\ UNCHANGED lvars
    \/ \E i \in 1..(MaxRequests + 1), o \in RefreshOutcomes :
          RefreshSettles(i, o) /\ UNCHANGED lvars
    \/ \E i \in 1..(MaxRequests + 2) : ToggleRow(i) /\ UNCHANGED lvars
    \/ ToggleSelectAll /\ UNCHANGED lvars
    \/ \E c \in BOOLEAN : DeleteClick(c) /\ UNCHANGED lvars
    \/ \E o \in MutationOutcomes : DeleteSettles(o) /\ UNCHANGED lvars
    \/ TimerFires /\ UNCHANGED lvars
    \/ \E po \in Keys \cup {""}, pt \in PartTypes, p \in 1..MaxPrio,
          q \in PlannedQuantities, c \in CurrentQuantities :
          SubmitCreate(po, pt, p, q, c) /\ UNCHANGED lvars
    \/ \E o \in MutationOutcomes : CreateSettles(o) /\ UNCHANGED lvars

InitR == LocalAtRest /\ InitRemote

SpecRemote == InitR /\ [][NextRemote]_vars

NextLocal ==
    \/ \E p \in Priorities, ok \in BOOLEAN : InsertOrderAtPriority(p, ok) /\ UNCHANGED rvars
    \/ \E confirmed \in BOOLEAN, ok \in BOOLEAN :
          DeleteBtnClick(confirmed, ok) /\ UNCHANGED rvars
    \/ \E i \in 1..MaxOrders : RowClick(i) /\ UNCHANGED rvars
    \/ SelectAllChange /\ UNCHANGED rvars
    \/ Escape /\ UNCHANGED rvars
    \/ LoadOrdersFromStorage /\ UNCHANGED rvars

InitL == InitLocal /\ RemoteAtRest

SpecLocal == InitL /\ [][NextLocal]_vars

(***************************************************************************)
(* The record store used directly: calls of window.dataManager's methods   *)
(* (unnamed/part_001), specified by SpecStore.                             *)
(***************************************************************************)
\* An order as handleFormSubmit assembles it (modal.js:385-394).
ValidOrderData ==
    [productionOrder |-> "A", partType |-> "T", plannedQuantity |-> 1,
     deliveryDate |-> "d", scheduledDate |-> "s", priority |-> 1]

\* The fields the form requires (modal.js:81).
RequiredFields ==
    {"productionOrder", "partType", "plannedQuantity", "deliveryDate", "scheduledDate"}

\* Every required field is there and not empty.
HasRequiredFields(order) ==
    /\ RequiredFields \subseteq DOMAIN order
    /\ \A f \in RequiredFields \ {"plannedQuantity"} : order[f] # ""
    /\ order.plannedQuantity > 0

\* What a caller hands to addOrder: a complete order, one with an empty
\* partType, one without deliveryDate, one that carries an id of its own.
OrderDataInputs ==
    {ValidOrderData,
     [ValidOrderData EXCEPT !.partType = ""],
     [productionOrder |-> "A", partType |-> "T", plannedQuantity |-> 1,
      scheduledDate |-> "s", priority |-> 1],
     Merge(ValidOrderData, [id |-> 1])}

\* What a caller hands to updateOrder as updateData.
UpdateDataInputs == {[priority |-> 2], [id |-> 2]}

\* A record of a file exported elsewhere.
ImportedOrder == Merge(ValidOrderData, [id |-> 101, createdAt |-> 0, updatedAt |-> 0])

\* What a caller hands to importFromJSON, as JSON.parse sees it: text that
\* does not parse, an object, an empty array, an array of two records.
ImportInputs ==
    {[kind |-> "invalid"], [kind |-> "object"],
     [kind |-> "array", data |-> <<>>],
     [kind |-> "array", data |-> <<ImportedOrder, ImportedOrder>>]}

OrderIds == 1..MaxOrders

\* dataManager.addOrder(orderData)
AddOrderCall(orderData, ok) ==
    /\ idClock < MaxOrders
    /\ store' = addOrder(store, orderData, generateId(idClock), ok)
    /\ idClock' = generateId(idClock)
    /\ lastOp' = [NoOp EXCEPT !.op = "addOrder", !.ok = ok, !.stored = ok,
                              !.ret = Returned("boolean", ok)]
    /\ UNCHANGED <<tbody, isDeleteMode, selectedRows, selectAll, deleteBtnText>>

\* dataManager.updateOrder(orderId, updateData); the clock has moved on when
\* updatedAt is stamped.
UpdateOrderCall(orderId, updateData, ok) ==
    /\ idClock < MaxOrders
    /\ LET r == updateOrder(store, orderId, updateData, idClock + 1, ok)
       IN  /\ store' = r.orders
           /\ lastOp' = [NoOp EXCEPT !.op = "updateOrder", !.target = orderId,
                                     !.ok = r.result,
                                     !.stored = (HasOrder(store, orderId) => ok),
                                     !.ret = Returned("boolean", r.result)]
    /\ idClock' = idClock + 1
    /\ UNCHANGED <<tbody, isDeleteMode, selectedRows, selectAll, deleteBtnText>>

\* dataManager.deleteOrder(orderId)
DeleteOrderCall(orderId, ok) ==
    /\ store' = deleteOrder(store, orderId, ok)
    /\ lastOp' = [NoOp EXCEPT !.op = "deleteOrder", !.target = orderId, !.ok = ok,
                              !.stored = ok, !.ret = Returned("boolean", ok)]
    /\ UNCHANGED <<tbody, isDeleteMode, selectedRows, selectAll, deleteBtnText, idClock>>

\* dataManager.deleteOrders(orderIds)
DeleteOrdersCall(orderIds, ok) ==
    /\ store' = deleteOrders(store, orderIds, ok)
    /\ lastOp' = [NoOp EXCEPT !.op = "deleteOrders", !.ok = ok, !.stored = ok,
                              !.ids = orderIds, !.ret = Returned("boolean", ok)]
    /\ UNCHANGED <<tbody, isDeleteMode, selectedRows, selectAll, deleteBtnText, idClock>>

\* dataManager.importFromJSON(jsonData)
ImportFromJSONCall(jsonData, ok) ==
    /\ LET r == importFromJSON(store, jsonData, ok)
       IN  /\ store' = r.orders
           /\ lastOp' = [NoOp EXCEPT !.op = "importFromJSON", !.ok = r.result,
                                     !.stored = (jsonData.kind = "array" => ok),
                                     !.ret = Returned("boolean", r.result)]
    /\ UNCHANGED <<tbody, isDeleteMode, selectedRows, selectAll, deleteBtnText, idClock>>

NextStore ==
    \/ \E d \in OrderDataInputs, ok \in BOOLEAN : AddOrderCall(d, ok) /\ UNCHANGED rvars
    \/ \E id \in OrderIds, d \in UpdateDataInputs, ok \in BOOLEAN :
          UpdateOrderCall(id, d, ok) /\ UNCHANGED rvars
    \/ \E id \in OrderIds, ok \in BOOLEAN : DeleteOrderCall(id, ok) /\ UNCHANGED rvars
    \/ \E ids \in SUBSET (1..2), ok \in BOOLEAN :
          DeleteOrdersCall(ids, ok) /\ UNCHANGED rvars
    \/ \E j \in ImportInputs, ok \in BOOLEAN : ImportFromJSONCall(j, ok) /\ UNCHANGED rvars

InitS == InitLocal /\ RemoteAtRest

SpecStore == InitS /\ [][NextStore]_vars

(***************************************************************************)
(* Properties of the local-store table.                                    *)
(***************************************************************************)
OidsOf(rows) == [i \in 1..Len(rows) |-> rows[i].oid]

\* C1: after every insertOrderAtPriority and every confirmed batch delete, the
\* priority column of the rendered rows reads 1..N in display order.
C1_PriorityColumnContiguous ==
    lastOp.op \in {"insert", "delete"} =>
        \A i \in 1..Len(tbody) : tbody[i].prio = i

\* C2: after every insert or confirmed batch delete that went through, the
\* persisted records carry the priorities 1..N, each record the rank of its
\* row in the display order.
C2_StoredPrioritiesContiguous ==
    (lastOp.op \in {"insert", "delete"} /\ lastOp.ok) =>
        /\ {store[k].priority : k \in 1..Len(store)} = 1..Len(store)
        /\ \A i \in 1..Len(tbody) : \A k \in 1..Len(store) :
              store[k].id = tbody[i].oid => store[k].priority = i

\* C3: a successful insertOrderAtPriority puts the new row immediately before
\* the first row, in display order, whose displayed priority is >= the
\* requested one, or at the end when there is none, and keeps the rows that
\* were there in their order.
C3_InsertPlacement ==
    [][(lastOp'.op = "insert" /\ lastOp'.ok) =>
         \E k \in 1..Len(tbody') :
            /\ Len(tbody') = Len(tbody) + 1
            /\ \A i \in 1..Len(tbody) : tbody[i].oid # tbody'[k].oid
            /\ \A i \in 1..(k - 1) :
                  tbody'[i].oid = tbody[i].oid /\ tbody[i].prio < lastOp'.target
            /\ \A i \in k..Len(tbody) : tbody'[i + 1].oid = tbody[i].oid
            /\ k <= Len(tbody) => tbody[k].prio >= lastOp'.target]_vars

\* C3 witness: a row was inserted strictly inside the table.
C3_Witness ==
    /\ lastOp.op = "insert" /\ lastOp.ok
    /\ 1 < lastOp.index /\ lastOp.index < Len(tbody)
    /\ tbody[lastOp.index].oid = idClock

\* C4 as stated: inserting with requested priority 2 into three rows showing
\* 1, 2, 3 puts the new row at rank 1.
C4_AsStated ==
    (lastOp.op = "insert" /\ lastOp.ok /\ lastOp.target = 2
        /\ lastOp.dense /\ Len(tbody) = 4) =>
        /\ tbody[1].oid = idClock
        /\ tbody[1].prio = 1

\* C4 (amended): inserting with requested priority 2 into three rows showing
\* 1, 2, 3 puts the new row second, between the rows that showed 1 and 2; the
\* four rows then show 1, 2, 3, 4 and the new row is at rank 2.
C4_InsertAtTwo ==
    [][(lastOp'.op = "insert" /\ lastOp'.ok /\ lastOp'.target = 2
          /\ PriorityColumn(tbody) = <<1, 2, 3>>) =>
         /\ OidsOf(tbody') =
              <<tbody[1].oid, idClock', tbody[2].oid, tbody[3].oid>>
         /\ PriorityColumn(tbody') = <<1, 2, 3, 4>>]_vars

\* C4 witness: the insert of the example has happened.
C4_Witness ==
    /\ lastOp.op = "insert" /\ lastOp.ok /\ lastOp.target = 2
    /\ lastOp.dense /\ Len(tbody) = 4
    /\ tbody[2].oid = idClock /\ tbody[2].prio = 2

\* C15: the identifiers a delete action collects belong to rows of the
\* currently rendered row set: every row in selectedRows (modal.js) is a row
\* of tbody, and every business key getSelectedProductionOrders returns
\* (organizer_table.js) is the key of a rendered row.
C15_CollectedIdsAreRendered ==
    /\ \A r \in selectedRows : \E i \in 1..Len(tbody) : tbody[i].oid = r
    /\ getSelectedProductionOrders(rtable) \subseteq RenderedKeys(rtable)

\* C15 witness: rows are selected for deletion after an earlier delete has
\* removed rows from the table.
C15_Witness ==
    /\ isDeleteMode /\ selectedRows # {}
    /\ Len(tbody) > Cardinality(selectedRows)
    /\ Len(store) < idClock

(***************************************************************************)
(* Properties of the record store.                                         *)
(***************************************************************************)
\* C18: the ids of the stored records are pairwise distinct, whatever
\* sequence of addOrder, updateOrder, deleteOrder, deleteOrders and
\* importFromJSON calls was made.
C18_IdsDistinct ==
    \A i, j \in 1..Len(store) : i # j => store[i].id # store[j].id

\* C19: updateOrder returns false and leaves the collection as it was when
\* no record has the id; when one has it, at most that record changes, every
\* record keeps its id and its place, and the records with other ids are as
\* they were.
C19_UpdateFrame ==
    [][lastOp'.op = "updateOrder" =>
         IF ~HasOrder(store, lastOp'.target)
         THEN ~lastOp'.ok /\ store' = store
         ELSE /\ Len(store') = Len(store)
              /\ \A k \in 1..Len(store) :
                    /\ store'[k].id = store[k].id
                    /\ store[k].id # lastOp'.target => store'[k] = store[k]
              /\ Cardinality({k \in 1..Len(store) : store'[k] # store[k]}) <= 1]_vars

\* C20: an add that succeeds has stored a record with every required field
\* present and not empty: a record that lacks one makes add fail and leaves
\* the collection as it was.
C20_AddValidates ==
    [][(lastOp'.op = "addOrder" /\ lastOp'.ok) =>
         /\ Len(store') = Len(store) + 1
         /\ HasRequiredFields(store'[Len(store')])]_vars

\* The DataManager methods that change the collection.
MutatingCalls == {"addOrder", "updateOrder", "deleteOrder", "deleteOrders"}

\* C21: when localStorage refuses the write of a mutating DataManager call,
\* the call returns false and the stored collection is what it was; in the
\* table a failed add inserts no row, and a failed batch delete removes no
\* row and keeps the selection and the delete mode.
C21_FailedSaveRollsBack ==
    [][/\ (lastOp'.op \in MutatingCalls /\ ~lastOp'.stored) =>
            /\ lastOp'.ret = Returned("boolean", FALSE)
            /\ store' = store
       /\ (lastOp'.op = "insert" /\ ~lastOp'.stored) =>
            /\ ~lastOp'.ok
            /\ store' = store
            /\ tbody' = tbody
       /\ (lastOp'.op = "delete" /\ ~lastOp'.stored) =>
            /\ ~lastOp'.ok
            /\ store' = store
            /\ tbody' = tbody
            /\ selectedRows' = selectedRows
            /\ isDeleteMode' = isDeleteMode]_vars

\* C21 witness: a confirmed batch delete has failed on the save; the rows are
\* still selected, in delete mode, and stored.
C21_Witness ==
    /\ lastOp.op = "delete" /\ ~lastOp.stored
    /\ isDeleteMode /\ selectedRows # {}
    /\ \A r \in selectedRows : HasOrder(store, r)

\* The indices of the records deleteOrders is to keep, and the j-th of them.
KeptIndices(orders, ids) == {k \in 1..Len(orders) : orders[k].id \notin ids}

NthKept(orders, ids, j) ==
    CHOOSE k \in KeptIndices(orders, ids) :
        Cardinality({m \in KeptIndices(orders, ids) : m < k}) = j - 1

\* After the call the collection is the records whose id is not in ids, each
\* unchanged, in the order they had.
RemovedExactly(before, after, ids) ==
    /\ Len(after) = Cardinality(KeptIndices(before, ids))
    /\ \A j \in 1..Len(after) : after[j] = before[NthKept(before, ids, j)]

\* C22 as stated: deleteOrders removes exactly the records whose id is in
\* ids, keeps the others unchanged and in order, and returns the number of
\* records removed.
C22_AsStated ==
    [][lastOp'.op = "deleteOrders" =>
         /\ RemovedExactly(store, store', lastOp'.ids)
         /\ lastOp'.ret.type = "number"
         /\ lastOp'.ret.val = Len(store) - Len(store')]_vars

\* C22 (amended): deleteOrders returns a boolean. When it returns true the
\* collection is the records whose id is not in ids, unchanged and in the
\* order they had; when it returns false (the save failed) the collection is
\* what it was.
C22_RemovesListed ==
    [][lastOp'.op = "deleteOrders" =>
         /\ lastOp'.ret.type = "boolean"
         /\ IF lastOp'.ret.val
            THEN RemovedExactly(store, store', lastOp'.ids)
            ELSE store' = store]_vars

\* C22 witness: deleteOrders([1, 2]) returned true and left records behind.
C22_Witness ==
    /\ lastOp.op = "deleteOrders" /\ lastOp.ret = Returned("boolean", TRUE)
    /\ lastOp.ids = {1, 2}
    /\ idClock >= 3 /\ Len(store) >= 1
    /\ \A k \in 1..Len(store) : store[k].id \notin {1, 2}

\* C25: when the user declines the confirmation prompt of the delete, the
\* store, the rendered rows, the selection, the select-all control, the
\* button and the delete mode are what they were before the click.
C25_DeclineChangesNothing ==
    [][lastOp'.op = "declineDelete" =>
         UNCHANGED <<store, tbody, isDeleteMode, selectedRows, selectAll,
                     deleteBtnText>>]_vars

\* C25 witness: the user has just declined the deletion of the selected rows.
C25_Witness ==
    /\ lastOp.op = "declineDelete"
    /\ isDeleteMode /\ selectedRows # {}
    /\ \A r \in selectedRows : HasOrder(store, r)

(***************************************************************************)
(* Properties of the remote table.                                         *)
(***************************************************************************)
\* The rows in the document, top to bottom.
VisibleRows(rows) ==
    LET IsAttached(r) == r.attached
    IN  SelectSeq(rows, IsAttached)

\* C5: refresh is single-flight: at no time are two GET /api/orders requests
\* of fetchAndDisplayOrders in flight, so two calls made before the first
\* resolves issue one fetch and emit one 'loaded' signal.
C5_SingleFlight == Len(refreshes) <= 1

\* C6: every fetchAndDisplayOrders call emits 'loading' once and, when its
\* fetch has settled, 'loaded' exactly once, whatever the outcome; when no
\* refresh is pending any more the table is not in the loading state.
C6_LoadedOncePerRefresh ==
    /\ started = finished + Len(refreshes)
    /\ refreshes = <<>> => ~loading
    /\ refreshes # <<>> => started > finished

\* C6 witness: every refresh issued has settled, the last one failed, after at
\* least two calls.
C6_Witness ==
    /\ refreshes = <<>> /\ started >= 2 /\ finished = started /\ ~loading
    /\ lastOutcome \in {"badData", "notSuccess", "httpError", "netError"}

\* C7: the rendered rows are in ascending order of Priority.
C7_RenderedAscending ==
    \A i, j \in Attached(rtable) : i < j => rtable[i].prio <= rtable[j].prio

\* C8: a refresh that fails (network error, non-OK status, body not 'success',
\* or 'success' body without a list) leaves the rendered rows exactly as they
\* were.
C8_FailedRefreshKeepsRows ==
    [][(finished' = finished + 1 /\ lastOutcome' # "success") =>
         VisibleRows(rtable') = VisibleRows(rtable)]_vars

\* C9: a failed batch delete calls fetchAndDisplayOrders exactly once, and the
\* rows that were selected for deletion stay rendered until that refresh
\* resolves.
C9_FailedDeleteKeepsRows ==
    [][/\ (delReq.state = "pending" /\ delReq'.state = "idle"
             /\ Len(timers') = Len(timers)) =>
            (Len(refreshes') = Len(refreshes) + 1 /\ started' = started + 1)
       /\ \A k \in 1..Len(refreshes') :
            refreshes'[k].cause = "deleteFailed" =>
                refreshes'[k].keys \subseteq RenderedKeys(rtable')]_vars

\* C10: a successful batch delete removes the rows of the deleted orders from
\* the rendered table and then issues exactly one refresh: when that refresh
\* is issued none of those rows is rendered any more.
C10_RowsRemovedBeforeRefresh ==
    [][Len(timers') < Len(timers) =>
         /\ Len(refreshes') = Len(refreshes) + 1
         /\ started' = started + 1
         /\ RenderedKeys(rtable') \cap Head(timers).keys = {}]_vars

\* A render of a successful refresh has just happened.
Rendered == finished' = finished + 1 /\ lastOutcome' = "success"

\* C11: when a create request fails (non-OK response, success flag false or
\* transport error) no refresh is issued, lastCreatedPO is unchanged, no row
\* is added to the rendered table and the create is not sent again; a row
\* appears in the table only through the render of a successful refresh.
C11_FailedCreateChangesNothing ==
    [][/\ (createReq.state = "pending" /\ createReq'.state = "idle"
             /\ createReq'.last \in {"rejected", "netError"}) =>
            /\ refreshes' = refreshes
            /\ started' = started
            /\ lastCreatedPO' = lastCreatedPO
            /\ rtable' = rtable
            /\ requests' = requests
            /\ createReq'.inflight = 0
       /\ (\/ Cardinality(Attached(rtable')) > Cardinality(Attached(rtable))
           \/ RenderedKeys(rtable') \ RenderedKeys(rtable) # {}) => Rendered]_vars

\* C11 witness: a create request came back rejected; the only refresh ever
\* issued is the one of the page load, and it has settled.
C11_Witness ==
    /\ createReq.state = "idle" /\ createReq.last = "rejected"
    /\ requests >= 1 /\ started = 1 /\ finished = 1 /\ refreshes = <<>>
    /\ lastCreatedPO = NoPO

\* C12: the pending-highlight marker is single use. A successful create sets
\* lastCreatedPO to the key it created in the step that issues the refresh;
\* nothing else sets it; every successful render leaves it empty and
\* highlights at most one row, one carrying the key the marker held.
C12_MarkerSingleUse ==
    [][/\ (createReq.state = "pending" /\ createReq'.last = "success"
             /\ createReq'.state = "idle") =>
            /\ lastCreatedPO' = createReq.po
            /\ Len(refreshes') = Len(refreshes) + 1
            /\ refreshes'[Len(refreshes')].cause = "created"
       /\ (lastCreatedPO' # lastCreatedPO /\ lastCreatedPO' # NoPO) =>
            (createReq.state = "pending" /\ createReq'.last = "success")
       /\ Rendered =>
            /\ lastCreatedPO' = NoPO
            /\ \A i \in 1..Len(rtable') :
                  rtable'[i].added => rtable'[i].po = lastCreatedPO
            /\ Cardinality({i \in 1..Len(rtable') : rtable'[i].added}) <= 1]_vars

\* C12 witness: the row of the created order is highlighted and the marker is
\* empty again.
C12_Witness ==
    /\ createReq.last = "success"
    /\ lastCreatedPO = NoPO
    /\ \E i \in Attached(rtable) : rtable[i].added

\* The selection relative to the rendered rows.
SelectionState(rows) ==
    IF CheckedRows(rows) = {} THEN "none"
    ELSE IF CheckedRows(rows) = Attached(rows) THEN "all"
    ELSE "some"

\* What the select-all control shows.
Reported(sa) ==
    IF sa.indeterminate THEN "some"
    ELSE IF sa.checked THEN "all" ELSE "none"

\* One rendered row has just been toggled.
ToggledOneRow ==
    /\ UNCHANGED <<refreshes, finished>>
    /\ \E i \in Attached(rtable) :
          rtable' = [rtable EXCEPT ![i].checked = ~rtable[i].checked]

\* C13: after a row is toggled the select-all control reports 'all' when
\* every rendered row is selected, 'none' when no rendered row is selected and
\* 'some' (indeterminate) when a strict non-empty subset is.
C13_TriStateAfterToggle ==
    [][ToggledOneRow => Reported(rSelectAll') = SelectionState(rtable')]_vars

\* C14: after every render of the remote table no rendered row is checked and
\* the select-all control is unchecked and not indeterminate.
C14_RenderClearsSelection ==
    [][Rendered =>
         /\ CheckedRows(rtable') = {}
         /\ rSelectAll' = [checked |-> FALSE, indeterminate |-> FALSE]]_vars

\* C16: a refresh issued because a create or delete request completed is
\* never in flight together with that request, and the collection it is
\* served was read after the API had carried that request out.
C16_RefreshAfterMutation ==
    \A k \in 1..Len(refreshes) :
        refreshes[k].req # 0 =>
            /\ ~(createReq.state = "pending" /\ createReq.n = refreshes[k].req)
            /\ ~(delReq.state = "pending" /\ delReq.n = refreshes[k].req)
            /\ (refreshes[k].answered /\ refreshes[k].cause \in {"created", "deleteDone"}) =>
                  refreshes[k].req \in refreshes[k].seen

\* C16 witness: the refresh of a successful create and the refresh of a
\* successful delete have both been served.
C16_Witness ==
    /\ \E k \in 1..Len(refreshes) :
          refreshes[k].cause = "created" /\ refreshes[k].answered
    /\ \E k \in 1..Len(refreshes) :
          refreshes[k].cause = "deleteDone" /\ refreshes[k].answered

\* C17: at most one create request and at most one batch-delete request are in
\* flight, and each button is disabled exactly while its request is.
C17_OneRequestPerButton ==
    /\ createReq.inflight <= 1
    /\ delReq.inflight <= 1
    /\ createReq.disabled <=> createReq.inflight = 1
    /\ delReq.disabled <=> delReq.inflight = 1

\* C17 witness: a create and a delete are in flight together, both buttons
\* disabled.
C17_Witness ==
    /\ createReq.inflight = 1 /\ createReq.disabled
    /\ delReq.inflight = 1 /\ delReq.disabled

\* C23: an order the new-order form submits has no more pieces finished than
\* intended (a submission with more finished than intended is rejected and
\* no create request is sent).
C23_FinishedWithinIntended ==
    createReq.state = "pending" => createReq.finished <= createReq.intended

\* The steps in which the user sends a request: the submit of the new-order
\* form, the confirmed click on the delete button.
UserSends ==
    \/ createReq.state = "idle" /\ createReq'.state = "pending"
    \/ delReq.state = "idle" /\ delReq'.state = "pending"

\* The steps in which a mutation settles, and the step of the removal timer.
CreateSettled == createReq.state = "pending" /\ createReq'.state = "idle"

DeleteSettled == delReq.state = "pending" /\ delReq'.state = "idle"

TimerFired == Len(timers') < Len(timers)

\* C24: no request is re-sent automatically. The step in which a refresh
\* fails and the step in which a create fails issue no request; the step in
\* which a batch delete fails issues one refresh and nothing else. A create
\* or delete request is only ever sent by a user action, and a refresh is
\* only ever issued by a successful create, a failed delete or the removal
\* timer of a successful delete.
C24_NoAutomaticResend ==
    [][/\ (finished' = finished + 1 /\ lastOutcome' # "success") =>
            /\ started' = started
            /\ requests' = requests
            /\ Len(refreshes') = Len(refreshes) - 1
       /\ (CreateSettled /\ CreateFailed(createReq'.last)) =>
            /\ started' = started
            /\ requests' = requests
            /\ refreshes' = refreshes
       /\ (DeleteSettled /\ applied' = applied) =>
            /\ started' = started + 1
            /\ requests' = requests
            /\ Len(refreshes') = Len(refreshes) + 1
       /\ requests' # requests => UserSends /\ requests' = requests + 1
       /\ started' # started =>
            /\ started' = started + 1
            /\ \/ CreateSettled /\ ~CreateFailed(createReq'.last)
               \/ DeleteSettled /\ applied' = applied
               \/ TimerFired]_vars

\* C24 witness: a refresh has failed, a create has failed and a delete has
\* failed; every request has settled, and the refreshes issued are the one of
\* the page load and the one of the failed delete.
C24_Witness ==
    /\ lastOutcome \in {"notSuccess", "httpError", "netError"}
    /\ createReq.state = "idle" /\ createReq.last = "netError"
    /\ delReq.state = "idle" /\ requests = 2 /\ applied = {}
    /\ refreshes = <<>> /\ timers = <<>>
    /\ started = 2 /\ finished = 2

\* C26: a batch-delete request is sent only when a row is checked, a checked
\* row has a non-empty business key and the user confirmed; the keys sent
\* are exactly the non-empty Production_order keys of the rows checked at
\* the click.
C26_DeleteSendsCheckedKeys ==
    [][(delReq.state = "idle" /\ delReq'.state = "pending") =>
         /\ CheckedRows(rtable) # {}
         /\ delReq'.confirmed
         /\ delReq'.keys # {}
         /\ delReq'.keys = {rtable[i].po : i \in CheckedRows(rtable)} \ {""}
         /\ delReq'.keys \subseteq Keys
         /\ requests' = requests + 1 /\ delReq'.n = requests']_vars

\* C26 witness: a confirmed delete request is in flight for key A alone,
\* while the row of A and a row without a key are both checked.
C26_Witness ==
    /\ delReq.state = "pending" /\ delReq.keys = {"A"} /\ delReq.confirmed
    /\ \E i \in CheckedRows(rtable) : rtable[i].po = ""
    /\ \E i \in CheckedRows(rtable) : rtable[i].po = "A"

\* C27: when the removal timer of a successful batch delete fires, the rows
\* it removes from the table are exactly the rendered rows whose business
\* key was sent in that request.
C27_RemovesRowsOfSentKeys ==
    [][TimerFired =>
         Attached(rtable) \ Attached(rtable') =
            {i \in Attached(rtable) : rtable[i].po \in Head(timers).keys}]_vars

\* C28: a batch-delete request never carries a key of an earlier request the
\* server has confirmed and whose rows are still waiting to be removed.
C28_NoResubmitOfDeletedKey ==
    [][(delReq.state = "idle" /\ delReq'.state = "pending") =>
         \A k \in 1..Len(timers) :
            timers[k].rows # {} => delReq'.keys \cap timers[k].keys = {}]_vars

\* Every request issued has settled and no removal timer is pending.
AllSettled ==
    /\ refreshes = <<>> /\ timers = <<>>
    /\ createReq.state = "idle" /\ delReq.state = "idle"

\* The orders the rendered rows show, top to bottom.
RenderedOrders ==
    [i \in 1..Len(VisibleRows(rtable)) |->
        [po |-> VisibleRows(rtable)[i].po, prio |-> VisibleRows(rtable)[i].prio]]

\* C29: once every request has settled, if the refresh issued last succeeded
\* the rendered rows are the collection that refresh returned.
C29_LastIssuedRefreshWins ==
    (AllSettled /\ latestRefresh.outcome = "success") =>
        RenderedOrders = latestRefresh.snap

\* C30: while a refresh is in flight the container is in the loading state.
C30_LoadingWhilePending == refreshes # <<>> => loading

\* C31: when the refresh a successful create has triggered succeeds with the
\* new record among the orders fetched, the table that refresh renders has
\* the row of that record highlighted.
C31_CreatedRowHighlighted ==
    [][\A i \in 1..Len(refreshes) :
         (/\ Rendered
          /\ refreshes' = RemoveAt(refreshes, i)
          /\ refreshes[i].cause = "created"
          /\ \E k \in 1..Len(refreshes[i].snap) :
                refreshes[i].snap[k].po \in refreshes[i].keys) =>
            \E r \in Attached(rtable') :
                rtable'[r].po \in refreshes[i].keys /\ rtable'[r].added]_vars

\* The selection relative to the rows of the local table.
LocalSelectionState(rows) ==
    LET checked == {i \in 1..Len(rows) : rows[i].checked}
    IN  IF checked = {} THEN "none"
        ELSE IF checked = 1..Len(rows) THEN "all"
        ELSE "some"

\* C32: in both tables the select-all control agrees with the checkboxes of
\* the rendered rows: unchecked when none is checked (the empty table
\* included), checked and not indeterminate when all are, indeterminate
\* otherwise.
C32_SelectAllAgrees ==
    /\ Reported(selectAll) = LocalSelectionState(tbody)
    /\ Reported(rSelectAll) = SelectionState(rtable)

\* The clicks on the delete button, by what they did.
DeleteBtnClicks == {"enterDelete", "cancelDelete", "declineDelete", "delete"}

\* C33: in the local table the selection is non-empty only in delete mode:
\* outside it selectedRows is empty and no row checkbox is checked; the step
\* that leaves delete mode clears both; the delete button reads 'confirm'
\* exactly when delete mode is on and rows are selected, and a click on it
\* runs confirmDelete exactly then.
C33_SelectionOnlyInDeleteMode ==
    [][/\ ~isDeleteMode' =>
            /\ selectedRows' = {}
            /\ \A i \in 1..Len(tbody') : ~tbody'[i].checked
       /\ (isDeleteMode /\ ~isDeleteMode') =>
            lastOp'.op \in {"cancelDelete", "escape", "delete", "load"}
       /\ deleteBtnText' = "confirm" <=> (isDeleteMode' /\ selectedRows' # {})
       /\ lastOp'.op \in DeleteBtnClicks =>
            (lastOp'.op \in {"declineDelete", "delete"}
                <=> (isDeleteMode /\ selectedRows # {}))]_vars

\* C33 witness: a confirmed delete of some of the rows has just left delete
\* mode; the rows that remain are unchecked and nothing is selected.
C33_Witness ==
    /\ lastOp.op = "delete" /\ lastOp.ok
    /\ ~isDeleteMode /\ deleteBtnText = "delete"
    /\ Len(tbody) >= 1 /\ Len(store) >= 1
    /\ selectedRows = {}

\* C34: reloading the local table keeps the order of the rows:
\* loadOrdersFromStorage renders the persisted records in the order in
\* which their rows were displayed before the reload.
C34_ReloadKeepsOrder ==
    [][lastOp'.op = "load" => OidsOf(tbody') = OidsOf(tbody)]_vars

====
